---- MODULE Spec2Model ----
(***************************************************************************)
(* Lecture-Assistant: the research workflow of backend/graph.py, compiled  *)
(* with a checkpointer and interrupt_before = [plan_review,                *)
(* fact_verification] (backend/main.py), the step functions of             *)
(* backend/nodes.py and the HTTP handlers start_research, resume_research  *)
(* and get_status of backend/main.py.                                      *)
(*                                                                         *)
(* Python dicts are functions from key strings to values, so that          *)
(* d.get(k, default) is Get(d, k, default) and `not d` is DOMAIN d = {}.   *)
(* A sequence field (a Python list) is a TLA+ sequence; a list whose       *)
(* elements no handler or router looks at is kept as its length.           *)
(*                                                                         *)
(* Every handler is `async def` without an await, so the event loop runs   *)
(* each call from its first line to its return before it takes up the next *)
(* request: one action is one whole call.                                  *)
(***************************************************************************)
EXTENDS Integers, Sequences, FiniteSets, TLC

----------------------------------------------------------------------------
(* Bounds of the model *)

\* thread ids that uuid4 can hand out
MaxThreads == 2
\* HTTP calls in one behaviour
MaxCalls == 4
\* supersteps one invoke may take before it is cut off
MaxSteps == 12
\* writes to the directory logs/ that fail in one behaviour of SpecFaults
MaxFaults == 1
\* resume requests issued in one behaviour of SpecLoop
MaxRequests == 2
\* numbered sections the LLM's answer may hold when synthesis_node is asked
\* in SpecPlans
MaxParsed == 9

Threads == 1..MaxThreads

----------------------------------------------------------------------------
(* Inputs *)

\* no step and no router branches on the topic: it is carried into the
\* queries, the prompts and the brief
Topics == {"neural networks"}

\* the decision vocabulary of refinement_node, and a value outside it
Decisions == {"approve", "more_sources", "emphasize_topic", "rework", ""}

\* FeedbackRequest.notes is Optional[str]: a JSON null arrives as None
Null == "<None>"
Notes == {"", "add more history", Null}

\* What the external collaborators may answer to a step that consults
\* them: the number of results Tavily returns in total, the number of valid
\* claims in the LLM's extraction answer (0: unparsable), the number of
\* claims the verifier accepts, and the number of numbered sections parsed
\* from the LLM's synthesis answer.
SearchAnswers == {0, 2}
ExtractAnswers == {0, 3}
VerifyAnswers == {3}
SynthesisAnswers == {3, 8}

----------------------------------------------------------------------------
(* Python helpers *)

EmptyDict == [k \in {} |-> ""]

\* d.get(k, default)
Get(d, k, default) == IF k \in DOMAIN d THEN d[k] ELSE default

\* dict(d) followed by d[k] = v
Put(d, k, v) ==
    IF k \in DOMAIN d THEN [d EXCEPT ![k] = v]
    ELSE [x \in DOMAIN d \cup {k} |-> IF x = k THEN v ELSE d[x]]

\* str.strip() on the notes the model draws
Strip(s) == IF s = "  " THEN "" ELSE s

Min(a, b) == IF a < b THEN a ELSE b

\* lst[:n]
Take(lst, n) == SubSeq(lst, 1, Min(n, Len(lst)))

\* lst[n:]
Drop(lst, n) == SubSeq(lst, n + 1, Len(lst))

\* final_brief: None
None == [none |-> TRUE]

----------------------------------------------------------------------------
(* backend/utils/logger.py *)

\* the entry log_node_execution returns; the timestamp, the summaries and the
\* prompt are left out, the node name and the human decision are kept
\* human_decision or "N/A"
NA == [na |-> TRUE]

log_node_execution(node_name, human_decision) ==
    [node |-> node_name,
     human_decision |-> IF human_decision = EmptyDict THEN NA
                        ELSE human_decision]

----------------------------------------------------------------------------
(* backend/nodes.py: the step functions.  Each takes the state (and the     *)
(* collaborators' answers of the call) and returns the state it returns.    *)

AppendLog(state, entry) ==
    [state EXCEPT !.node_logs = Append(@, entry)]

input_node(state) ==
    AppendLog([state EXCEPT !.search_queries =
                  <<"comprehensive guide", "tutorial explained",
                    "applications examples", "latest developments 2024",
                    "how does it work">>],
              log_node_execution("input", NA))

\* every query is searched inside its own try/except; the results of all
\* queries are collected
search_node(state, found) ==
    LET results == IF Len(state.search_queries) = 0 THEN 0 ELSE found
    IN AppendLog([state EXCEPT !.raw_search_results = results],
                 log_node_execution("search", NA))

\* no search results: extracted_claims = [] and an early return, before the
\* logging call at the end of the function
extract_node(state, claims) ==
    IF state.raw_search_results = 0
    THEN [state EXCEPT !.extracted_claims = 0]
    ELSE AppendLog([state EXCEPT !.extracted_claims = Min(claims, 10)],
                   log_node_execution("extract", NA))

\* reorders the claims, authoritative sources first
author_prioritization_node(state) ==
    AppendLog(state, log_node_execution("prioritize", NA))

verification_node(state, accepted) ==
    LET claims_to_verify == Min(state.extracted_claims, 12)
    IN AppendLog([state EXCEPT !.verified_claims =
                      Min(accepted, claims_to_verify)],
                 log_node_execution("verify", NA))

FallbackFewClaims ==
    <<"Fundamentals", "Key Technologies", "Current Applications",
      "Critical Analysis", "Future Outlook">>

FallbackSynthesisError ==
    <<"Introduction", "Foundations", "Technical Deep Dive",
      "Real-World Applications", "Challenges and Limitations",
      "Future Directions">>

\* the numbered sections parsed from the LLM's answer
ParsedSections ==
    <<"Section 1", "Section 2", "Section 3", "Section 4", "Section 5",
      "Section 6", "Section 7", "Section 8">>

ParsedPlan(n) == Take(ParsedSections, n)

\* as synthesis_node, taking the parsed sections without the validation
\* len(plan) >= 4
synthesis_node_unvalidated(state, parsed) ==
    IF state.verified_claims < 3
    THEN [state EXCEPT !.draft_plan = FallbackFewClaims]
    ELSE AppendLog(
            [state EXCEPT !.draft_plan = Take(ParsedPlan(parsed), 7)],
            log_node_execution("synthesize", NA))

\* fewer than 3 verified claims: the fallback plan and an early return,
\* before the logging call at the end of the function
synthesis_node(state, parsed) ==
    IF state.verified_claims < 3
    THEN [state EXCEPT !.draft_plan = FallbackFewClaims]
    ELSE AppendLog(
            [state EXCEPT !.draft_plan =
                IF parsed >= 4 THEN Take(ParsedPlan(parsed), 7)
                ELSE FallbackSynthesisError],
            log_node_execution("synthesize", NA))

\* as hitl_plan_review, starting the log afresh at every review
hitl_plan_review_fresh_log(state) ==
    [state EXCEPT !.node_logs = <<log_node_execution("plan_review", NA)>>]

hitl_plan_review(state) ==
    AppendLog(state, log_node_execution("plan_review", NA))

EmphasisSection == "Special Focus"

\* feedback.get("notes", "").strip() on a None, and draft_plan[0] on an
\* empty plan, raise
refinement_raises(state) ==
    LET feedback == Get(state, "human_feedback", EmptyDict)
        decision == Get(feedback, "decision", "")
        notes    == Get(feedback, "notes", "")
    IN \/ notes = Null
       \/ /\ decision = "emphasize_topic"
          /\ Strip(notes) # ""
          /\ state.draft_plan = <<>>

refinement_node(state) ==
    LET feedback == Get(state, "human_feedback", EmptyDict)
        decision == Get(feedback, "decision", "")
        notes    == Strip(Get(feedback, "notes", ""))
        routed ==
            CASE decision = "approve" ->
                    [state EXCEPT !.refined_plan = state.draft_plan,
                                  !.route_to = "fact_verification"]
              [] decision = "more_sources" ->
                    [state EXCEPT !.search_queries =
                                      IF notes # ""
                                      THEN <<"notes", "notes detailed",
                                             "notes examples">>
                                      ELSE <<"advanced topics", "detailed guide",
                                             "comprehensive overview">>,
                                  !.route_to = "search"]
              [] decision = "emphasize_topic" ->
                    [state EXCEPT !.refined_plan =
                                      IF notes # ""
                                      THEN <<state.draft_plan[1]>>
                                           \o <<EmphasisSection>>
                                           \o Drop(state.draft_plan, 1)
                                      ELSE state.draft_plan,
                                  !.route_to = "fact_verification"]
              [] decision = "rework" ->
                    [state EXCEPT !.refinement_notes = notes,
                                  !.route_to = "synthesize"]
              [] OTHER ->
                    [state EXCEPT !.refined_plan = state.draft_plan,
                                  !.route_to = "fact_verification"]
    IN AppendLog(routed, log_node_execution("refine", feedback))

\* as hitl_fact_verification, also appending to messages
hitl_fact_verification_with_message(state) ==
    AppendLog([state EXCEPT !.messages =
                   Append(@, "awaiting_human_verification")],
              log_node_execution("fact_verification", NA))

hitl_fact_verification(state) ==
    AppendLog(state, log_node_execution("fact_verification", NA))

\* as final_brief_node, without state["final_brief"] = brief
final_brief_node_without_brief(state) ==
    AppendLog(state, log_node_execution("final_brief", NA))

\* the brief keeps the plan and the node trace; the LLM's content, the
\* findings and the bibliography are left out
final_brief_node(state) ==
    LET current_plan == IF Get(state, "refined_plan", <<>>) # <<>>
                        THEN state.refined_plan ELSE state.draft_plan
        brief == [lecture_plan |-> current_plan,
                  node_trace |-> [i \in 1..Len(state.node_logs) |->
                                      state.node_logs[i].node]]
    IN AppendLog([state EXCEPT !.final_brief = brief],
                 log_node_execution("final_brief", NA))

----------------------------------------------------------------------------
(* backend/graph.py: build_graph *)

Nodes == {"input", "search", "extract", "prioritize", "verify", "synthesize",
          "plan_review", "refine", "fact_verification", "final_brief"}

END == "__end__"

START == "__start__"

EntryPoint == "input"

\* workflow.add_edge(a, b)
Edges == [input |-> "search", search |-> "extract", extract |-> "prioritize",
          prioritize |-> "verify", verify |-> "synthesize",
          synthesize |-> "plan_review", fact_verification |-> "final_brief",
          final_brief |-> END]

\* as route_after_plan_review, comparing with the wrong literal
route_after_plan_review_approved(state) ==
    LET decision == Get(Get(state, "human_feedback", EmptyDict), "decision", "")
    IN IF decision = "approved" THEN "fact_verification" ELSE "refine"

\* as route_after_plan_review, with "approve" as the default decision
route_after_plan_review_default_approve(state) ==
    LET decision ==
            Get(Get(state, "human_feedback", EmptyDict), "decision", "approve")
    IN IF decision = "approve" THEN "fact_verification" ELSE "refine"

route_after_plan_review(state) ==
    LET decision == Get(Get(state, "human_feedback", EmptyDict), "decision", "")
    IN IF decision = "approve" THEN "fact_verification" ELSE "refine"

route_after_refine(state) == Get(state, "route_to", "fact_verification")

\* the path maps given to add_conditional_edges
PathMap == [plan_review |-> {"fact_verification", "refine"},
            refine |-> {"search", "synthesize", "fact_verification"}]

Router(node, state) ==
    IF node = "plan_review" THEN route_after_plan_review(state)
    ELSE route_after_refine(state)

\* as branch_raises, for conditional edges added without a path map: the
\* router's value is taken as the name of the next node
branch_without_path_map(node, state) == FALSE

\* a router's value that is no key of its path map makes the branch raise
branch_raises(node, state) ==
    /\ node \in DOMAIN PathMap
    /\ Router(node, state) \notin PathMap[node]

\* what the writers of `node` schedule when they run on `state`: the tuple
\* of next nodes, () after the edge to END
next_after(node, state) ==
    IF node = START THEN <<EntryPoint>>
    ELSE IF node \in DOMAIN Edges
    THEN IF Edges[node] = END THEN <<>> ELSE <<Edges[node]>>
    ELSE <<Router(node, state)>>

\* the answers a step can get from the collaborators it consults on
\* `state`; {0} for a step that consults none
answers(node, state) ==
    CASE node = "search" /\ Len(state.search_queries) > 0 -> SearchAnswers
      [] node = "extract" /\ state.raw_search_results > 0 -> ExtractAnswers
      [] node = "verify" /\ state.extracted_claims > 0 -> VerifyAnswers
      [] node = "synthesize" /\ state.verified_claims >= 3 -> SynthesisAnswers
      [] OTHER -> {0}

\* workflow.add_node(name, function)
step(node, state, answer) ==
    CASE node = "input"             -> input_node(state)
      [] node = "search"            -> search_node(state, answer)
      [] node = "extract"           -> extract_node(state, answer)
      [] node = "prioritize"        -> author_prioritization_node(state)
      [] node = "verify"            -> verification_node(state, answer)
      [] node = "synthesize"        -> synthesis_node(state, answer)
      [] node = "plan_review"       -> hitl_plan_review(state)
      [] node = "refine"            -> refinement_node(state)
      [] node = "fact_verification" -> hitl_fact_verification(state)
      [] node = "final_brief"       -> final_brief_node(state)

step_raises(node, state) == node = "refine" /\ refinement_raises(state)

\* the step reaches its call of log_node_execution: all but the early
\* returns of extract_node and synthesis_node
step_logs(node, state, answer) ==
    step(node, state, answer).node_logs # state.node_logs

\* the state dict of the step at its call of log_node_execution: the
\* step's assignments are made, the entry is not appended
step_at_log(node, state, answer) ==
    [step(node, state, answer) EXCEPT !.node_logs = state.node_logs]

----------------------------------------------------------------------------
(* The state of the service *)

VARIABLES
    store,      \* the checkpointer: thread id -> latest checkpoint
    calls,      \* HTTP calls served so far
    lastCall,   \* the call served last: what it found, ran and answered
    executed,   \* per thread, the nodes run so far, oldest first
    polled,     \* per thread, the answer of get_status since the thread's
                \* last start or resume, if there was one
    probe,      \* a state handed to the routers alone, and their answers
    logs_dir,   \* the writes to the directory logs/ that can still fail
    loop        \* the event loop: the tasks of the resume requests taken
                \* one statement at a time, and the task that is running

vars == <<store, calls, lastCall, executed, polled, probe, logs_dir, loop>>

----------------------------------------------------------------------------
(* backend/main.py: the compiled graph and its checkpointer.               *)
(*                                                                         *)
(* A checkpoint holds the channel values, the tuple of next nodes and the  *)
(* node whose writes came last (the checkpointer's versions_seen names     *)
(* it).  get_state on a thread id without a checkpoint returns a snapshot  *)
(* with empty values and an empty next.                                    *)

\* as interrupt_before, with plan_review left out of the list
interrupt_before_fact_verification_only == {"fact_verification"}

interrupt_before == {"plan_review", "fact_verification"}

NoCheckpoint == [values |-> EmptyDict, next |-> <<>>, last |-> ""]

\* a step that raised: the node, the state it received and the state dict
\* it was working on when it raised
NoRaise == [node |-> ""]

Raised(node, received, at_raise) ==
    [node |-> node, received |-> received, at_raise |-> at_raise]

\* as checkpoint_after_raise, with a saver that keeps the state dict the
\* step was working on
checkpoint_by_reference(ck, partial) == [ck EXCEPT !.values = partial]

\* the checkpoint get_state finds after a step raised on the state dict
\* `partial`: SqliteSaver stored a serialized copy at the end of the
\* superstep before, and the step worked on a dict of its own
checkpoint_after_raise(ck, partial) == ck

\* compiled_graph.invoke: supersteps from checkpoint `ck` on.  A superstep
\* runs the next node and its writers and persists the new checkpoint; an
\* exception in it leaves the checkpoint of the superstep before.  The loop
\* stops before a node of interrupt_before, except in the first superstep
\* of an invoke(None, config), which resumes.  A result is the last
\* checkpoint persisted, the nodes run (each with the next node its writers
\* scheduled), the exception raised, if any, and the state dict the raising
\* step was working on; there is one result for every way the collaborators
\* can answer.  While writes to the directory logs/ can fail, the write of
\* log_node_execution may raise OSError in any step that reaches it.
RECURSIVE pregel_loop(_, _, _, _)
pregel_loop(ck, resuming, fuel, trace) ==
    LET stopped == [ck |-> ck, trace |-> trace, error |-> "",
                    partial |-> NoRaise]
    IN
    IF ck.next = <<>>
    THEN {stopped}
    ELSE LET node == ck.next[1] IN
         IF node \in interrupt_before /\ ~resuming
         THEN {stopped}
         ELSE IF fuel = 0
         THEN {[stopped EXCEPT !.error = "GraphRecursionError"]}
         ELSE IF step_raises(node, ck.values)
         THEN {[ck |-> checkpoint_after_raise(ck, ck.values), trace |-> trace,
                error |-> "AttributeError",
                partial |-> Raised(node, ck.values, ck.values)]}
         ELSE UNION {
            LET new == step(node, ck.values, answer)
                at_log == step_at_log(node, ck.values, answer)
            IN
              (IF logs_dir > 0 /\ step_logs(node, ck.values, answer)
               THEN {[ck |-> checkpoint_after_raise(ck, at_log),
                      trace |-> trace, error |-> "OSError",
                      partial |-> Raised(node, ck.values, at_log)]}
               ELSE {})
              \cup
              (IF branch_raises(node, new)
               THEN {[ck |-> checkpoint_after_raise(ck, new), trace |-> trace,
                      error |-> "KeyError",
                      partial |-> Raised(node, ck.values, new)]}
               ELSE LET scheduled == next_after(node, new) IN
                    pregel_loop(
                       [values |-> new, next |-> scheduled, last |-> node],
                       FALSE, fuel - 1,
                       Append(trace, [node |-> node, next |-> scheduled])))
            : answer \in answers(node, ck.values) }

\* compiled_graph.update_state(config, values), called without as_node:
\* the library applies the update as if it came from the node that updated
\* the state last, and the nodes to run next are those of that node's
\* outgoing edges.  Its writers, the conditional edge among them, run on the
\* new values: after synthesize the next node is plan_review whatever the
\* values are; after plan_review it is what route_after_plan_review answers
\* on the values just written; after final_brief there is none; after
\* __start__, when the entry node has not run, it is the entry node.
\* Without a node that wrote before, the update is refused.
update_state_raises(ck, values) ==
    \/ ck.last \notin Nodes \cup {START}
    \/ branch_raises(ck.last, values)

\* the exception of a refused update: the branch's lookup in its path map
\* fails with KeyError
update_state_error(ck, values) ==
    IF ck.last \in Nodes \cup {START} /\ branch_raises(ck.last, values)
    THEN "KeyError"
    ELSE "InvalidUpdateError"

\* as update_state, for a resume that hands the updated values to the graph
\* as a new input: the run starts again at the entry node
update_state_as_input(ck, values) ==
    [values |-> values, next |-> <<EntryPoint>>, last |-> START]

update_state(ck, values) ==
    [values |-> values, next |-> next_after(ck.last, values), last |-> ck.last]

----------------------------------------------------------------------------
(* The service *)

NoAnswer == [http |-> 0]

NoProbe == [state |-> EmptyDict, a |-> "-", b |-> "-"]

\* the tasks of the event loop
Requests == 1..MaxRequests

NoTask == [pc |-> "none"]

IdleLoop == [tasks |-> [r \in Requests |-> NoTask], running |-> 0]

NoCall == [op |-> "none", thread |-> 0, before |-> NoCheckpoint,
           trace |-> <<>>, answer |-> NoAnswer, repeated |-> FALSE,
           partial |-> NoRaise]

Init ==
    /\ store = [t \in Threads |-> NoCheckpoint]
    /\ calls = 0
    /\ lastCall = NoCall
    /\ executed = [t \in Threads |-> <<>>]
    /\ polled = [t \in Threads |-> NoAnswer]
    /\ probe = NoProbe
    /\ logs_dir = 0
    /\ loop = IdleLoop

\* as session_not_found, with the check left out
session_never_missing(snapshot) == FALSE

\* `not state_snapshot.values`
session_not_found(snapshot) == DOMAIN snapshot.values = {}

\* the failures left to the directory logs/ after an invoke
after_write(result) ==
    IF result.error = "OSError" THEN logs_dir - 1 ELSE logs_dir

\* uuid4 never repeats an id: the model hands out the lowest unused one
Unused == {t \in Threads : store[t] = NoCheckpoint /\ executed[t] = <<>>}

\* as FreshThread, handing out the first id again and again
FreshThread_repeating == CHOOSE t \in Threads : \A u \in Threads : t <= u

FreshThread == CHOOSE t \in Unused : \A u \in Unused : t <= u

\* as initial_state, leaving route_to for refine to set
initial_state_unrouted(topic) ==
    [topic |-> topic, search_queries |-> <<>>, raw_search_results |-> 0,
     extracted_claims |-> 0, draft_plan |-> <<>>,
     human_feedback |-> EmptyDict, refined_plan |-> <<>>,
     verified_claims |-> 0, final_brief |-> None, node_logs |-> <<>>,
     messages |-> <<>>, route_to |-> "", refinement_notes |-> ""]

initial_state(topic) ==
    [topic |-> topic, search_queries |-> <<>>, raw_search_results |-> 0,
     extracted_claims |-> 0, draft_plan |-> <<>>,
     human_feedback |-> EmptyDict, refined_plan |-> <<>>,
     verified_claims |-> 0, final_brief |-> None, node_logs |-> <<>>,
     messages |-> <<>>, route_to |-> "fact_verification",
     refinement_notes |-> ""]

\* state_snapshot.next[0] if state_snapshot.next else default
next_or(snapshot, default) ==
    IF snapshot.next # <<>> THEN snapshot.next[1] ELSE default

\* POST /run
start_research(topic) ==
    /\ calls < MaxCalls
    /\ Unused # {}
    /\ \E thread_id \in {FreshThread} :
       \E result \in pregel_loop([values |-> initial_state(topic),
                                  next |-> <<EntryPoint>>,
                                  last |-> START],
                                 FALSE, MaxSteps, <<>>) :
          \* compiled_graph.get_state(config) after the invoke
          LET state_snapshot == result.ck
              answer ==
                  IF result.error # ""
                  THEN [http |-> 500, detail |-> result.error]
                  ELSE [http |-> 200, thread_id |-> thread_id,
                        status |-> "interrupted",
                        checkpoint |-> next_or(state_snapshot, "unknown"),
                        data |-> state_snapshot.values]
          IN /\ store' = [store EXCEPT ![thread_id] = result.ck]
             /\ executed' = [executed EXCEPT ![thread_id] = @ \o result.trace]
             /\ polled' = [polled EXCEPT ![thread_id] = NoAnswer]
             /\ lastCall' = [op |-> "start", thread |-> thread_id,
                             before |-> store[thread_id],
                             trace |-> result.trace, answer |-> answer,
                             repeated |-> FALSE, partial |-> result.partial]
             /\ logs_dir' = after_write(result)
    /\ calls' = calls + 1
    /\ UNCHANGED <<probe, loop>>

\* POST /resume/{thread_id}
resume_research(thread_id, decision, notes) ==
    /\ calls < MaxCalls
    /\ LET state_snapshot == store[thread_id]
           current_checkpoint == next_or(state_snapshot, "none")
           updated_state ==
               Put(state_snapshot.values, "human_feedback",
                   [decision |-> decision, notes |-> notes,
                    checkpoint |-> current_checkpoint])
       IN IF session_not_found(state_snapshot)
          THEN /\ lastCall' = [op |-> "resume", thread |-> thread_id,
                               before |-> state_snapshot, trace |-> <<>>,
                               answer |-> [http |-> 404,
                                           detail |-> "Session not found"],
                               repeated |-> FALSE, partial |-> NoRaise]
               /\ UNCHANGED <<store, executed, polled, logs_dir>>
          ELSE IF update_state_raises(state_snapshot, updated_state)
          THEN /\ lastCall' = [op |-> "resume", thread |-> thread_id,
                               before |-> state_snapshot, trace |-> <<>>,
                               answer |-> [http |-> 500,
                                           detail |-> update_state_error(
                                                          state_snapshot,
                                                          updated_state)],
                               repeated |-> FALSE, partial |-> NoRaise]
               /\ UNCHANGED <<store, executed, polled, logs_dir>>
          ELSE \E result \in pregel_loop(
                                 update_state(state_snapshot, updated_state),
                                 TRUE, MaxSteps, <<>>) :
               \* compiled_graph.get_state(config) after the invoke
               LET final_state == result.ck
                   answer ==
                       IF result.error # ""
                       THEN [http |-> 500, detail |-> result.error]
                       ELSE IF final_state.next # <<>>
                       THEN [http |-> 200, thread_id |-> thread_id,
                             status |-> "interrupted",
                             checkpoint |-> final_state.next[1],
                             data |-> final_state.values]
                       ELSE [http |-> 200, thread_id |-> thread_id,
                             status |-> "completed",
                             final_brief |->
                                 Get(final_state.values, "final_brief", None),
                             data |-> final_state.values]
               IN /\ store' = [store EXCEPT ![thread_id] = final_state]
                  /\ executed' =
                        [executed EXCEPT ![thread_id] = @ \o result.trace]
                  /\ polled' = [polled EXCEPT ![thread_id] = NoAnswer]
                  /\ lastCall' = [op |-> "resume", thread |-> thread_id,
                                  before |-> state_snapshot,
                                  trace |-> result.trace, answer |-> answer,
                                  repeated |-> FALSE,
                                  partial |-> result.partial]
                  /\ logs_dir' = after_write(result)
    /\ calls' = calls + 1
    /\ UNCHANGED <<probe, loop>>

\* as get_status, but recording the poll in the thread's state
get_status_recording(thread_id) ==
    /\ calls < MaxCalls
    /\ LET state == store[thread_id]
           answer ==
               IF session_not_found(state)
               THEN [http |-> 404, detail |-> "Session not found"]
               ELSE [http |-> 200, thread_id |-> thread_id,
                     status |-> IF state.next = <<>> THEN "completed"
                                ELSE "interrupted",
                     checkpoint |-> next_or(state, "None"),
                     data |-> state.values]
       IN /\ lastCall' = [op |-> "status", thread |-> thread_id,
                          before |-> state, trace |-> <<>>, answer |-> answer,
                          repeated |-> polled[thread_id] # NoAnswer,
                          partial |-> NoRaise]
          /\ polled' = [polled EXCEPT ![thread_id] = answer]
          /\ store' = IF session_not_found(state) THEN store
                      ELSE [store EXCEPT ![thread_id].values.messages =
                               Append(@, "status")]
    /\ calls' = calls + 1
    /\ UNCHANGED <<executed, probe, logs_dir, loop>>

\* GET /status/{thread_id}
get_status(thread_id) ==
    /\ calls < MaxCalls
    /\ LET state == store[thread_id]
           answer ==
               IF session_not_found(state)
               THEN [http |-> 404, detail |-> "Session not found"]
               ELSE [http |-> 200, thread_id |-> thread_id,
                     status |-> IF state.next = <<>> THEN "completed"
                                ELSE "interrupted",
                     checkpoint |-> next_or(state, "None"),
                     data |-> state.values]
       IN /\ lastCall' = [op |-> "status", thread |-> thread_id,
                          before |-> state, trace |-> <<>>, answer |-> answer,
                          repeated |-> polled[thread_id] # NoAnswer,
                          partial |-> NoRaise]
          /\ polled' = [polled EXCEPT ![thread_id] = answer]
    /\ calls' = calls + 1
    /\ UNCHANGED <<store, executed, probe, logs_dir, loop>>

\* the handler's `except Exception as e: raise HTTPException(500, str(e))`
\* around its whole body: HTTPException is an Exception, so the 404s raised
\* in the body are caught with every other exception
download_pdf_except(raised) ==
    [http |-> 500, detail |-> raised.detail]

\* GET /pdf/{uid}; `built` is whether the file under temp/ could be made
\* and written
download_pdf(uid, built) ==
    /\ calls < MaxCalls
    /\ LET state_snapshot == store[uid]
           brief == Get(state_snapshot.values, "final_brief", EmptyDict)
           answer ==
               IF session_not_found(state_snapshot)
               THEN download_pdf_except(
                        [http |-> 404, detail |-> "Session not found"])
               ELSE IF brief \in {None, EmptyDict}
               THEN download_pdf_except(
                        [http |-> 404,
                         detail |-> "Final brief not generated yet"])
               ELSE IF ~built
               THEN download_pdf_except([http |-> 0, detail |-> "OSError"])
               ELSE [http |-> 200, media_type |-> "application/pdf",
                     node_trace |-> brief.node_trace]
       IN lastCall' = [op |-> "pdf", thread |-> uid,
                       before |-> state_snapshot, trace |-> <<>>,
                       answer |-> answer, repeated |-> FALSE,
                       partial |-> NoRaise]
    /\ calls' = calls + 1
    /\ UNCHANGED <<store, executed, polled, probe, logs_dir, loop>>

Next ==
    \/ \E topic \in Topics : start_research(topic)
    \/ \E t \in Threads, decision \in Decisions, notes \in Notes :
          resume_research(t, decision, notes)
    \/ \E t \in Threads : get_status(t)

Spec == Init /\ [][Next]_vars

----------------------------------------------------------------------------
(* The service while the directory logs/ cannot be written reliably: the   *)
(* open or the write in log_node_execution may raise OSError, MaxFaults    *)
(* times.  One client starts a thread and resumes it, with notes or with   *)
(* null for notes; the service is followed up to the call in which the     *)
(* last of these writes fails.                                             *)

InitFaults ==
    /\ store = [t \in Threads |-> NoCheckpoint]
    /\ calls = 0
    /\ lastCall = NoCall
    /\ executed = [t \in Threads |-> <<>>]
    /\ polled = [t \in Threads |-> NoAnswer]
    /\ probe = NoProbe
    /\ logs_dir = MaxFaults
    /\ loop = IdleLoop

NextFaults ==
    /\ logs_dir > 0
    /\ \/ /\ Unused = Threads
          /\ \E topic \in Topics : start_research(topic)
       \/ \E t \in Threads \ Unused, decision \in Decisions,
             notes \in Notes \ {""} :
             resume_research(t, decision, notes)

SpecFaults == InitFaults /\ [][NextFaults]_vars

----------------------------------------------------------------------------
(* The service with process crashes.  The checkpointer's database is       *)
(* sqlite3.connect(":memory:"): it lives in the process, and the process   *)
(* started after a crash connects to a new, empty one.                     *)

\* the store of the restarted process
restarted_store == [t \in Threads |-> NoCheckpoint]

\* the process dies while it serves POST /run, when `supersteps` supersteps
\* of the invoke (or all there were) have persisted their checkpoints, and
\* is started again
crash_in_start(topic, supersteps) ==
    /\ calls < MaxCalls
    /\ Unused # {}
    /\ \E thread_id \in {FreshThread} :
       \E result \in pregel_loop([values |-> initial_state(topic),
                                  next |-> <<EntryPoint>>,
                                  last |-> START],
                                 FALSE, supersteps, <<>>) :
          /\ store' = restarted_store
          /\ executed' = [executed EXCEPT ![thread_id] = @ \o result.trace]
          /\ lastCall' = [op |-> "crash", thread |-> thread_id,
                          before |-> store[thread_id],
                          trace |-> result.trace, answer |-> NoAnswer,
                          repeated |-> FALSE, partial |-> NoRaise,
                          persisted |-> result.ck]
    /\ polled' = [t \in Threads |-> NoAnswer]
    /\ calls' = calls + 1
    /\ UNCHANGED <<probe, logs_dir, loop>>

\* the process dies while it serves POST /resume/{thread_id}, after the
\* update_state and `supersteps` supersteps of the invoke (or all there
\* were), and is started again
crash_in_resume(thread_id, decision, notes, supersteps) ==
    /\ calls < MaxCalls
    /\ LET state_snapshot == store[thread_id]
           current_checkpoint == next_or(state_snapshot, "none")
           updated_state ==
               Put(state_snapshot.values, "human_feedback",
                   [decision |-> decision, notes |-> notes,
                    checkpoint |-> current_checkpoint])
       IN /\ ~session_not_found(state_snapshot)
          /\ ~update_state_raises(state_snapshot, updated_state)
          /\ \E result \in pregel_loop(
                                 update_state(state_snapshot, updated_state),
                                 TRUE, supersteps, <<>>) :
                /\ store' = restarted_store
                /\ executed' =
                      [executed EXCEPT ![thread_id] = @ \o result.trace]
                /\ lastCall' = [op |-> "crash", thread |-> thread_id,
                                before |-> state_snapshot,
                                trace |-> result.trace, answer |-> NoAnswer,
                                repeated |-> FALSE, partial |-> NoRaise,
                                persisted |-> result.ck]
    /\ polled' = [t \in Threads |-> NoAnswer]
    /\ calls' = calls + 1
    /\ UNCHANGED <<probe, logs_dir, loop>>

NextCrash ==
    \/ Next
    \/ \E topic \in Topics, k \in 0..MaxSteps : crash_in_start(topic, k)
    \/ \E t \in Threads, decision \in Decisions, notes \in Notes,
          k \in 0..MaxSteps : crash_in_resume(t, decision, notes, k)

SpecCrash == Init /\ [][NextCrash]_vars

----------------------------------------------------------------------------
(* resume_research statement by statement, under the event loop.  uvicorn  *)
(* makes a task of every request; the event loop runs one task at a time   *)
(* and takes up another only when the running one awaits or returns.       *)
(* Requests are issued at any time, also while a task is running.  One     *)
(* thread is started; the resume requests name it and carry notes or null  *)
(* for notes.                                                              *)

\* as awaits, for a handler that awaits before its update_state
awaits_before_update_state(pc) == pc = "update_state"

\* the handler awaits before the statement at pc: resume_research is an
\* async def whose body holds no await
awaits(pc) == FALSE

\* the task holding the event loop when task r comes to the statement pc
holder(r, pc) == IF awaits(pc) THEN 0 ELSE r

\* a client issues POST /resume/{thread_id}
request_arrives(thread_id, decision, notes) ==
    /\ \E r \in Requests :
          /\ loop.tasks[r] = NoTask
          /\ \A q \in Requests : q < r => loop.tasks[q] # NoTask
          /\ loop' = [loop EXCEPT !.tasks[r] =
                         [pc |-> "get_state", thread |-> thread_id,
                          decision |-> decision, notes |-> notes,
                          state_snapshot |-> NoCheckpoint,
                          issued_during |-> loop.running]]
    /\ UNCHANGED <<store, calls, lastCall, executed, polled, probe, logs_dir>>

\* the event loop, free, takes up a task that has not returned
run_task(r) ==
    /\ loop.running = 0
    /\ loop.tasks[r].pc \in {"get_state", "update_state", "invoke"}
    /\ loop' = [loop EXCEPT !.running = r]
    /\ UNCHANGED <<store, calls, lastCall, executed, polled, probe, logs_dir>>

\* state_snapshot = compiled_graph.get_state(config), and the 404
resume_research_get_state(r) ==
    /\ loop.running = r
    /\ loop.tasks[r].pc = "get_state"
    /\ LET task == loop.tasks[r]
           state_snapshot == store[task.thread]
       IN IF session_not_found(state_snapshot)
          THEN /\ loop' = [loop EXCEPT !.tasks[r].pc = "done", !.running = 0]
               /\ lastCall' = [op |-> "resume", thread |-> task.thread,
                               before |-> state_snapshot, trace |-> <<>>,
                               answer |-> [http |-> 404,
                                           detail |-> "Session not found"],
                               repeated |-> FALSE, partial |-> NoRaise]
               /\ calls' = calls + 1
          ELSE /\ loop' = [loop EXCEPT
                              !.tasks[r].pc = "update_state",
                              !.tasks[r].state_snapshot = state_snapshot,
                              !.running = holder(r, "update_state")]
               /\ UNCHANGED <<lastCall, calls>>
    /\ UNCHANGED <<store, executed, polled, probe, logs_dir>>

\* the values the handler writes back: the snapshot it read, with its
\* feedback
updated_state_of(task) ==
    Put(task.state_snapshot.values, "human_feedback",
        [decision |-> task.decision, notes |-> task.notes,
         checkpoint |-> next_or(task.state_snapshot, "none")])

\* compiled_graph.update_state(config, updated_state), on the checkpoint
\* the store holds now
resume_research_update_state(r) ==
    /\ loop.running = r
    /\ loop.tasks[r].pc = "update_state"
    /\ LET task == loop.tasks[r]
           updated_state == updated_state_of(task)
       IN IF update_state_raises(store[task.thread], updated_state)
          THEN /\ loop' = [loop EXCEPT !.tasks[r].pc = "done", !.running = 0]
               /\ lastCall' = [op |-> "resume", thread |-> task.thread,
                               before |-> task.state_snapshot, trace |-> <<>>,
                               answer |-> [http |-> 500,
                                           detail |-> update_state_error(
                                                          task.state_snapshot,
                                                          updated_state_of(
                                                              task))],
                               repeated |-> FALSE, partial |-> NoRaise]
               /\ calls' = calls + 1
               /\ UNCHANGED store
          ELSE /\ store' = [store EXCEPT ![task.thread] =
                               update_state(store[task.thread], updated_state)]
               /\ loop' = [loop EXCEPT !.tasks[r].pc = "invoke",
                                       !.running = holder(r, "invoke")]
               /\ UNCHANGED <<lastCall, calls>>
    /\ UNCHANGED <<executed, polled, probe, logs_dir>>

\* compiled_graph.invoke(None, config), the get_state after it and the
\* return
resume_research_invoke(r) ==
    /\ loop.running = r
    /\ loop.tasks[r].pc = "invoke"
    /\ LET task == loop.tasks[r] IN
       \E result \in pregel_loop(store[task.thread], TRUE, MaxSteps, <<>>) :
          LET final_state == result.ck
              answer ==
                  IF result.error # ""
                  THEN [http |-> 500, detail |-> result.error]
                  ELSE IF final_state.next # <<>>
                  THEN [http |-> 200, thread_id |-> task.thread,
                        status |-> "interrupted",
                        checkpoint |-> final_state.next[1],
                        data |-> final_state.values]
                  ELSE [http |-> 200, thread_id |-> task.thread,
                        status |-> "completed",
                        final_brief |->
                            Get(final_state.values, "final_brief", None),
                        data |-> final_state.values]
          IN /\ store' = [store EXCEPT ![task.thread] = final_state]
             /\ executed' = [executed EXCEPT ![task.thread] = @ \o result.trace]
             /\ polled' = [polled EXCEPT ![task.thread] = NoAnswer]
             /\ lastCall' = [op |-> "resume", thread |-> task.thread,
                             before |-> task.state_snapshot,
                             trace |-> result.trace, answer |-> answer,
                             repeated |-> FALSE, partial |-> result.partial]
             /\ logs_dir' = after_write(result)
    /\ loop' = [loop EXCEPT !.tasks[r].pc = "done", !.running = 0]
    /\ calls' = calls + 1
    /\ UNCHANGED probe

NextLoop ==
    \/ /\ loop.running = 0
       /\ Unused = Threads
       /\ \E topic \in Topics : start_research(topic)
    \/ \E t \in Threads \ Unused, decision \in Decisions,
          notes \in Notes \ {""} :
          request_arrives(t, decision, notes)
    \/ \E r \in Requests : run_task(r)
    \/ \E r \in Requests : resume_research_get_state(r)
    \/ \E r \in Requests : resume_research_update_state(r)
    \/ \E r \in Requests : resume_research_invoke(r)

SpecLoop == Init /\ [][NextLoop]_vars

----------------------------------------------------------------------------
(* The routers on their own: a state is handed to route_after_plan_review  *)
(* and to route_after_refine, with or without the keys they read.          *)

ProbeDecisions == {"approve", "Approve", "approved", "more_sources",
                   "emphasize_topic", "rework", ""}

ProbeRoutes == {"search", "synthesize", "fact_verification", "refine",
                "plan_review", "final_brief", ""}

Absent == "<absent>"

ProbeFeedbacks ==
    {EmptyDict, [notes |-> "add more history"]}
    \cup {[decision |-> d, notes |-> "", checkpoint |-> "plan_review"] :
            d \in ProbeDecisions}

\* a state with the key human_feedback (unless has_feedback is FALSE) and
\* the key route_to (unless route is Absent)
ProbeState(has_feedback, feedback, route) ==
    [k \in (IF has_feedback THEN {"human_feedback"} ELSE {})
           \cup (IF route = Absent THEN {} ELSE {"route_to"}) |->
        IF k = "human_feedback" THEN feedback ELSE route]

ProbeStates ==
    {ProbeState(TRUE, f, r) : f \in ProbeFeedbacks,
                              r \in ProbeRoutes \cup {Absent}}
    \cup {ProbeState(FALSE, EmptyDict, r) : r \in ProbeRoutes \cup {Absent}}

InitRouters ==
    /\ store = [t \in Threads |-> NoCheckpoint]
    /\ calls = 0
    /\ lastCall = NoCall
    /\ executed = [t \in Threads |-> <<>>]
    /\ polled = [t \in Threads |-> NoAnswer]
    /\ logs_dir = 0
    /\ loop = IdleLoop
    /\ probe \in [state : ProbeStates, a : {"-"}, b : {"-"}]

ask_route_after_plan_review ==
    /\ probe.a = "-"
    /\ probe' = [probe EXCEPT !.a = route_after_plan_review(probe.state)]
    /\ UNCHANGED <<store, calls, lastCall, executed, polled, logs_dir, loop>>

ask_route_after_refine ==
    /\ probe.b = "-"
    /\ probe' = [probe EXCEPT !.b = route_after_refine(probe.state)]
    /\ UNCHANGED <<store, calls, lastCall, executed, polled, logs_dir, loop>>

NextRouters == ask_route_after_plan_review \/ ask_route_after_refine

SpecRouters == InitRouters /\ [][NextRouters]_vars

----------------------------------------------------------------------------
(* The conditional edge of refine and the store.  refinement_node writes   *)
(* one of three values to route_to, so the service itself never hands the  *)
(* edge another one; here one client starts a thread and resumes it, and   *)
(* the edge is asked once what it schedules after refine on the values of  *)
(* the thread's checkpoint with any value written to route_to.             *)

\* the writers of refine on `state`: the node the branch schedules, or the
\* exception of the lookup of the router's value in the path map
branch_after_refine(state) ==
    IF branch_raises("refine", state)
    THEN "KeyError"
    ELSE next_after("refine", state)[1]

ask_branch_after_refine(thread_id, route) ==
    /\ probe = NoProbe
    /\ store[thread_id] # NoCheckpoint
    /\ LET state == Put(store[thread_id].values, "route_to", route)
       IN probe' = [state |-> state, a |-> "-",
                    b |-> route_after_refine(state),
                    c |-> branch_after_refine(state)]
    /\ UNCHANGED <<store, calls, lastCall, executed, polled, logs_dir, loop>>

NextBranch ==
    \/ /\ probe = NoProbe
       /\ \/ /\ Unused = Threads
             /\ \E topic \in Topics : start_research(topic)
          \/ \E t \in Threads \ Unused, decision \in Decisions,
                notes \in Notes :
                resume_research(t, decision, notes)
    \/ \E t \in Threads, route \in ProbeRoutes :
          ask_branch_after_refine(t, route)

SpecBranch == Init /\ [][NextBranch]_vars

----------------------------------------------------------------------------
(* The plans of synthesis_node.  One client starts a thread and resumes    *)
(* it, and synthesis_node is asked once for the plan it makes of the       *)
(* values of a thread paused before plan_review when the LLM's answer      *)
(* holds any number of numbered sections up to MaxParsed.                  *)

ask_synthesis_node(thread_id, parsed) ==
    /\ probe = NoProbe
    /\ store[thread_id].next = <<"plan_review">>
    /\ LET state == store[thread_id].values
       IN probe' = [state |-> state, a |-> "-", b |-> "-",
                    parsed |-> parsed,
                    plan |-> synthesis_node(state, parsed).draft_plan]
    /\ UNCHANGED <<store, calls, lastCall, executed, polled, logs_dir, loop>>

NextPlans ==
    \/ /\ probe = NoProbe
       /\ \/ /\ Unused = Threads
             /\ \E topic \in Topics : start_research(topic)
          \/ \E t \in Threads \ Unused, decision \in Decisions,
                notes \in Notes :
                resume_research(t, decision, notes)
    \/ \E t \in Threads, parsed \in 0..MaxParsed :
          ask_synthesis_node(t, parsed)

SpecPlans == Init /\ [][NextPlans]_vars

----------------------------------------------------------------------------
(* The export.  One client starts a thread and resumes it, and the PDF is  *)
(* asked for under the thread's id and under ids that were never handed    *)
(* out.                                                                    *)

NextPdf ==
    \/ /\ Unused = Threads
       /\ \E topic \in Topics : start_research(topic)
    \/ \E t \in Threads \ Unused, decision \in Decisions, notes \in Notes :
          resume_research(t, decision, notes)
    \/ \E uid \in Threads, built \in BOOLEAN : download_pdf(uid, built)

SpecPdf == Init /\ [][NextPdf]_vars

----------------------------------------------------------------------------
(* Shorthands for the properties *)

\* the names of the nodes in a trace, in order
NodesOf(trace) == [i \in 1..Len(trace) |-> trace[i].node]

\* the feedback the last resume wrote
Submitted == Get(store[lastCall.thread].values, "human_feedback", EmptyDict)

\* the last call was a resume of a thread parked before `node`
ResumedAt(node) ==
    /\ lastCall.op = "resume"
    /\ lastCall.before.next = <<node>>

Answered(status, checkpoint) ==
    /\ lastCall.answer.http = 200
    /\ lastCall.answer.status = status
    /\ Get(lastCall.answer, "checkpoint", "") = checkpoint

----------------------------------------------------------------------------
(* Properties *)

PipelineToPlanReview ==
    <<"input", "search", "extract", "prioritize", "verify", "synthesize">>

\* C1: a start on a fresh thread runs input, search, extract, prioritize,
\* verify, synthesize, each once and in this order, and answers
\* "interrupted" at checkpoint plan_review with plan_review's body not run,
\* whatever the steps returned.
C1_StartStopsBeforePlanReview ==
    lastCall.op = "start" =>
        /\ lastCall.before = NoCheckpoint
        /\ NodesOf(lastCall.trace) = PipelineToPlanReview
        /\ Answered("interrupted", "plan_review")
        /\ store[lastCall.thread].next = <<"plan_review">>
        /\ \A i \in DOMAIN store[lastCall.thread].values.node_logs :
              store[lastCall.thread].values.node_logs[i].node # "plan_review"

\* a start whose search found nothing and whose plan is the fallback
C1_Witness ==
    /\ lastCall.op = "start"
    /\ lastCall.answer.http = 200
    /\ lastCall.answer.data.raw_search_results = 0
    /\ lastCall.answer.data.draft_plan = FallbackFewClaims

\* C2: a thread parked before plan_review or fact_verification has not run
\* that node's body for this episode, and the next resume runs that node
\* exactly once, as its first node.
C2_TwoPhaseInterrupt ==
    /\ \A t \in Threads, n \in interrupt_before :
          (store[t].next = <<n>> /\ executed[t] # <<>>) =>
              executed[t][Len(executed[t])].node # n
    /\ \A n \in interrupt_before :
          ResumedAt(n) =>
              /\ lastCall.trace # <<>>
              /\ lastCall.trace[1].node = n
              /\ Cardinality({i \in DOMAIN lastCall.trace :
                                 lastCall.trace[i].node = n}) = 1

\* C3: resuming a thread parked before plan_review with decision "approve"
\* runs plan_review alone and pauses before fact_verification; refine is
\* not run in that call.
C3_ApproveGoesToFactVerification ==
    (ResumedAt("plan_review") /\ Submitted.decision = "approve") =>
        /\ NodesOf(lastCall.trace) = <<"plan_review">>
        /\ Answered("interrupted", "fact_verification")
        /\ store[lastCall.thread].next = <<"fact_verification">>

\* an approval sent with null notes
C3_Witness ==
    /\ ResumedAt("plan_review")
    /\ Submitted.decision = "approve"
    /\ Submitted.notes = Null
    /\ lastCall.trace # <<>>

\* C4: resuming a thread parked before plan_review with decision "rework"
\* runs plan_review, refine, synthesize and pauses before plan_review.
C4_ReworkResynthesizes ==
    (ResumedAt("plan_review") /\ Submitted.decision = "rework") =>
        /\ NodesOf(lastCall.trace) = <<"plan_review", "refine", "synthesize">>
        /\ Answered("interrupted", "plan_review")
        /\ store[lastCall.thread].next = <<"plan_review">>

\* C5: a resume of an existing thread that is not parked before plan_review
\* or fact_verification fails with InvalidState, runs no node and leaves the
\* checkpoint as it was.
C5_ResumeOutsideInterruptIsInvalid ==
    ( /\ lastCall.op = "resume"
      /\ DOMAIN lastCall.before.values # {}
      /\ \/ lastCall.before.next = <<>>
         \/ lastCall.before.next[1] \notin {"plan_review", "fact_verification"} )
    => /\ Get(lastCall.answer, "detail", "") = "InvalidState"
       /\ lastCall.trace = <<>>
       /\ store[lastCall.thread] = lastCall.before

\* C6: a resume or a status request for a thread id without a checkpoint is
\* answered not-found, runs no node and creates no checkpoint for the id.
C6_UnknownThreadNotFound ==
    ( /\ lastCall.op \in {"resume", "status"}
      /\ DOMAIN lastCall.before.values = {} )
    => /\ lastCall.answer.http = 404
       /\ lastCall.trace = <<>>
       /\ store[lastCall.thread] = NoCheckpoint
       /\ executed[lastCall.thread] = <<>>

\* a resume answered 404 while another thread exists
C6_Witness ==
    /\ lastCall.op = "resume"
    /\ lastCall.answer.http = 404
    /\ \E t \in Threads : store[t] # NoCheckpoint

\* C7: get_status changes no checkpoint, and a get_status on a thread
\* answers what the get_status before it on that thread answered, unless
\* the thread was started or resumed in between.
C7_GetStatusReadOnlyIdempotent ==
    [][ (calls' = calls + 1 /\ lastCall'.op = "status") =>
            /\ store' = store
            /\ polled[lastCall'.thread] # NoAnswer =>
                  lastCall'.answer = polled[lastCall'.thread] ]_vars

\* a second status request on a parked thread
C7_Witness ==
    /\ lastCall.op = "status"
    /\ lastCall.repeated
    /\ lastCall.answer.http = 200
    /\ lastCall.answer.status = "interrupted"

\* C8: route_after_plan_review answers fact_verification exactly when the
\* state holds a feedback record whose decision is "approve", and refine
\* otherwise, also without a decision, with an empty record and without a
\* record.
C8_RouterAApproveOnly ==
    probe.a # "-" =>
        /\ probe.a \in {"fact_verification", "refine"}
        /\ probe.a = "fact_verification" <=>
              /\ "human_feedback" \in DOMAIN probe.state
              /\ "decision" \in DOMAIN probe.state.human_feedback
              /\ probe.state.human_feedback.decision = "approve"

\* the router asked about a feedback record without a decision
C8_Witness ==
    /\ probe.a = "refine"
    /\ "human_feedback" \in DOMAIN probe.state
    /\ "decision" \notin DOMAIN probe.state.human_feedback

\* C9: route_after_refine answers route_to when it is search, synthesize or
\* fact_verification, and fact_verification when route_to is missing or
\* anything else.
C9_RouterBDefaults ==
    probe.b # "-" =>
        probe.b = IF /\ "route_to" \in DOMAIN probe.state
                     /\ probe.state.route_to \in
                           {"search", "synthesize", "fact_verification"}
                  THEN probe.state.route_to
                  ELSE "fact_verification"

\* C10: in a thread, every node run after another is the node the other's
\* edge or router scheduled on the state it produced, and no call runs a
\* node twice.
C10_RunsFollowGraph ==
    /\ \A t \in Threads : \A i \in 1..(Len(executed[t]) - 1) :
          executed[t][i].next = <<executed[t][i + 1].node>>
    /\ \A i, j \in DOMAIN lastCall.trace :
          i # j => lastCall.trace[i].node # lastCall.trace[j].node

\* the node_logs of a thread's checkpoint, [] without a checkpoint
LogsOf(ck) == Get(ck.values, "node_logs", <<>>)

\* [log["node"] for log in node_logs]
LogNames(logs) == [i \in 1..Len(logs) |-> logs[i].node]

IsPrefix(s, t) == Len(s) <= Len(t) /\ SubSeq(t, 1, Len(s)) = s

\* C11: the node names of a thread's node_logs, in order, are the nodes the
\* thread has run, in order: every run of a node appended one entry with
\* its name, also extract on no search results and synthesize on fewer than
\* 3 verified claims.
C11_OneLogEntryPerExecution ==
    \A t \in Threads :
        LogNames(LogsOf(store[t])) = NodesOf(executed[t])

\* C12: from one checkpoint of a thread to the next, through a start, a
\* resume (its state update and the nodes it runs) or a get_status, the
\* earlier node_logs is a prefix of the later one.
C12_LogsAppendOnly ==
    [][ \A t \in Threads : IsPrefix(LogsOf(store[t]), LogsOf(store'[t])) ]_vars

\* a resume that ran refine and further nodes on a thread with a log
C12_Witness ==
    /\ lastCall.op = "resume"
    /\ Len(LogsOf(lastCall.before)) >= 5
    /\ Len(lastCall.trace) >= 3
    /\ \E i \in DOMAIN lastCall.trace : lastCall.trace[i].node = "refine"

\* C13: after a crash in a start or a resume the store holds the checkpoint
\* the call persisted last, so that the thread continues from it with the
\* nodes an execution without the crash would run next; a resume of a
\* thread that has run nodes finds its checkpoint.
C13_CrashKeepsCheckpoint ==
    /\ lastCall.op = "crash" =>
          store[lastCall.thread] = lastCall.persisted
    /\ ( /\ lastCall.op = "resume"
         /\ executed[lastCall.thread] # <<>> )
       => lastCall.answer.http # 404

C15_FeedbackWriteKeepsPending ==
    \A p \in interrupt_before :
        ResumedAt(p) =>
            LET written == update_state(lastCall.before,
                               Put(lastCall.before.values, "human_feedback",
                                   Submitted))
            IN /\ Submitted.checkpoint = p
               /\ \A k \in DOMAIN lastCall.before.values \ {"human_feedback"} :
                     written.values[k] = lastCall.before.values[k]
               /\ written.next = <<p>>
               /\ lastCall.trace # <<>> => lastCall.trace[1].node = p

\* C16: an answer "interrupted" of start, resume or get_status names
\* plan_review or fact_verification as the checkpoint, and an answer
\* "completed" is given for a thread without a pending node.
C16_PausesOnlyAtInterruptNodes ==
    ( /\ lastCall.op \in {"start", "resume", "status"}
      /\ lastCall.answer.http = 200 )
    => /\ lastCall.answer.status = "interrupted" =>
             lastCall.answer.checkpoint \in {"plan_review", "fact_verification"}
       /\ lastCall.answer.status = "completed" =>
             store[lastCall.thread].next = <<>>

\* C17: a thread is answered "completed" exactly when it has no pending
\* node; a checkpoint without a pending node has final_brief as the node
\* run last and final_brief set, and a checkpoint with a pending node has
\* final_brief None.
C17_CompletedIffFinalBrief ==
    /\ \A t \in Threads :
          store[t] # NoCheckpoint =>
              /\ store[t].next = <<>> <=> store[t].values.final_brief # None
              /\ store[t].next = <<>> =>
                    /\ executed[t] # <<>>
                    /\ executed[t][Len(executed[t])].node = "final_brief"
    /\ ( /\ lastCall.op \in {"start", "resume", "status"}
         /\ lastCall.answer.http = 200 )
       => ( lastCall.answer.status = "completed"
               <=> store[lastCall.thread].next = <<>> )

\* a resume that ran fact_verification and final_brief and answered
\* "completed"
C17_Witness ==
    /\ lastCall.op = "resume"
    /\ lastCall.answer.http = 200
    /\ lastCall.answer.status = "completed"
    /\ NodesOf(lastCall.trace) = <<"fact_verification", "final_brief">>
    /\ lastCall.answer.final_brief # None

\* C18: a call on one thread leaves the checkpoint and the nodes run of
\* every other thread as they were, and a start takes a thread id that has
\* no checkpoint and has run no node.
C18_ThreadsIsolated ==
    [][ /\ \A t \in Threads :
              t # lastCall'.thread =>
                  /\ store'[t] = store[t]
                  /\ executed'[t] = executed[t]
        /\ lastCall'.op = "start" =>
              /\ store[lastCall'.thread] = NoCheckpoint
              /\ executed[lastCall'.thread] = <<>> ]_vars

\* a resume ran nodes on the second thread while the first was parked
\* before fact_verification
C18_Witness ==
    /\ lastCall.op = "resume"
    /\ lastCall.thread = 2
    /\ lastCall.trace # <<>>
    /\ store[1].next = <<"fact_verification">>

\* route_after_plan_review was evaluated in the last call: by the state
\* update of a resume on a checkpoint that plan_review wrote last, or after
\* a run of plan_review
RouterAEvaluated ==
    /\ lastCall.op = "resume"
    /\ lastCall.answer.http # 404
    /\ \/ lastCall.before.last = "plan_review"
       \/ \E i \in DOMAIN lastCall.trace : lastCall.trace[i].node = "plan_review"

\* C20: whenever route_after_plan_review is evaluated, human_feedback is the
\* record the resuming call wrote for the episode of plan_review (its
\* checkpoint field is plan_review), and refine, when it runs in that call,
\* reads the decision the router read.
C20_FeedbackConsumedOnce ==
    RouterAEvaluated =>
        /\ Submitted.checkpoint = "plan_review"
        /\ \A i \in DOMAIN LogsOf(store[lastCall.thread]) :
              ( /\ i > Len(LogsOf(lastCall.before))
                /\ LogsOf(store[lastCall.thread])[i].node = "refine" )
              => LogsOf(store[lastCall.thread])[i].human_decision.decision
                    = Submitted.decision

\* the task has read the checkpoint and has not returned
InFlight(r) == loop.tasks[r].pc \in {"update_state", "invoke"}

\* C19: two resume calls of one thread do not interleave: no two tasks of a
\* thread are between their get_state and their return; the checkpoint a
\* task read is the stored one when it writes its feedback, and the
\* checkpoint with its feedback is the stored one when it invokes; a
\* returning call leaves what the whole handler, run alone on the
\* checkpoint it read, can leave.
C19_ResumesSerialized ==
    /\ [] ( /\ \A r, q \in Requests :
                  (r # q /\ InFlight(r) /\ InFlight(q)) =>
                      loop.tasks[r].thread # loop.tasks[q].thread
            /\ \A r \in Requests :
                  loop.tasks[r].pc = "update_state" =>
                      store[loop.tasks[r].thread] = loop.tasks[r].state_snapshot
            /\ \A r \in Requests :
                  loop.tasks[r].pc = "invoke" =>
                      store[loop.tasks[r].thread] =
                          update_state(loop.tasks[r].state_snapshot,
                                       updated_state_of(loop.tasks[r])) )
    /\ [][ ( /\ calls' = calls + 1
             /\ lastCall'.op = "resume"
             /\ lastCall'.answer.http # 404 )
           => \E result \in pregel_loop(
                  update_state(lastCall'.before,
                      Put(lastCall'.before.values, "human_feedback",
                          store'[lastCall'.thread].values.human_feedback)),
                  TRUE, MaxSteps, <<>>) :
                 /\ result.ck = store'[lastCall'.thread]
                 /\ result.trace = lastCall'.trace ]_vars

\* a second resume of the thread was issued while the first was running,
\* and both have returned, the second after running nodes
C19_Witness ==
    /\ loop.tasks[1].pc = "done"
    /\ loop.tasks[2].pc = "done"
    /\ loop.tasks[2].issued_during = 1
    /\ loop.tasks[1].thread = loop.tasks[2].thread
    /\ lastCall.op = "resume"
    /\ lastCall.trace # <<>>
    /\ Len(executed[lastCall.thread]) > Len(lastCall.trace) + 6

AgentStateFields ==
    {"topic", "search_queries", "raw_search_results", "extracted_claims",
     "draft_plan", "human_feedback", "refined_plan", "verified_claims",
     "final_brief", "node_logs", "messages", "route_to", "refinement_notes"}

\* C22: every checkpoint holds all fields of the Run State; no call changes
\* a thread's topic; a resume that ran plan_review alone left every field
\* as the state update wrote it, but node_logs, which got one entry of
\* plan_review; and a resume that ran fact_verification and final_brief
\* changed final_brief and node_logs alone, the latter by one entry of
\* each.
C22_StepsKeepFrame ==
    /\ \A t \in Threads :
          store[t] # NoCheckpoint =>
              /\ DOMAIN store[t].values = AgentStateFields
              /\ store[t].values.topic \in Topics
    /\ ( /\ lastCall.op = "resume"
         /\ lastCall.answer.http # 404 )
       => LET before == lastCall.before.values
              after  == store[lastCall.thread].values
              ran    == NodesOf(lastCall.trace)
          IN /\ after.topic = before.topic
             /\ ran = <<"plan_review">> =>
                   /\ \A k \in AgentStateFields \ {"node_logs", "human_feedback"} :
                         after[k] = before[k]
                   /\ after.human_feedback = Submitted
                   /\ Len(after.node_logs) = Len(before.node_logs) + 1
                   /\ IsPrefix(before.node_logs, after.node_logs)
                   /\ after.node_logs[Len(after.node_logs)].node = "plan_review"
             /\ ran = <<"fact_verification", "final_brief">> =>
                   /\ \A k \in AgentStateFields \
                                {"node_logs", "human_feedback", "final_brief"} :
                         after[k] = before[k]
                   /\ Len(after.node_logs) = Len(before.node_logs) + 2
                   /\ IsPrefix(before.node_logs, after.node_logs)
                   /\ after.node_logs[Len(before.node_logs) + 1].node
                         = "fact_verification"

\* both interrupt nodes have run alone in a thread: plan_review in an
\* approving resume, fact_verification in the resume that completed it
C22_Witness ==
    /\ lastCall.op = "resume"
    /\ NodesOf(lastCall.trace) = <<"fact_verification", "final_brief">>
    /\ \E i \in DOMAIN executed[lastCall.thread] :
          /\ executed[lastCall.thread][i].node = "plan_review"
          /\ executed[lastCall.thread][i].next = <<"fact_verification">>
    /\ store[lastCall.thread].values.refined_plan = <<>>

\* the ways a resume with `decision` and `notes` can go on thread t, parked
\* before `node`
ResumesOf(t, node, decision, notes) ==
    pregel_loop(update_state(store[t],
                    Put(store[t].values, "human_feedback",
                        [decision |-> decision, notes |-> notes,
                         checkpoint |-> node])),
                TRUE, MaxSteps, <<>>)

\* C23: when a thread parked before plan_review or fact_verification has
\* been resumed, a resume with the same decision of any other thread
\* parked before the same node runs the same nodes in the same order and
\* stops at the same point, whatever its notes and its stored values are.
C23_RoutingIndependentOfData ==
    \A n \in interrupt_before :
        ResumedAt(n) =>
            \A t \in Threads \ {lastCall.thread}, notes \in Notes :
                store[t].next = <<n>> =>
                    \A other \in ResumesOf(t, n, Submitted.decision, notes) :
                        /\ NodesOf(other.trace) = NodesOf(lastCall.trace)
                        /\ other.ck.next = store[lastCall.thread].next
                        /\ (other.error = "") = (lastCall.answer.http = 200)

\* how often `node` was run in a trace
Runs(trace, node) ==
    Cardinality({i \in DOMAIN trace : trace[i].node = node})

\* C24: a thread with a checkpoint has run input once, whatever was
\* submitted to it, and a resume with decision "approve" runs none of
\* search, extract, prioritize, verify, synthesize.
C24_NoReexecution ==
    /\ \A t \in Threads :
          /\ Runs(executed[t], "input") <= 1
          /\ store[t] # NoCheckpoint => Runs(executed[t], "input") = 1
    /\ ( /\ lastCall.op = "resume"
         /\ lastCall.answer.http # 404
         /\ Submitted.decision = "approve" )
       => \A n \in {"input", "search", "extract", "prioritize", "verify",
                    "synthesize"} :
             Runs(lastCall.trace, n) = 0

\* an approval ran nodes on a thread that had gone back through search
\* before
C24_Witness ==
    /\ lastCall.op = "resume"
    /\ lastCall.answer.http = 200
    /\ Submitted.decision = "approve"
    /\ lastCall.trace # <<>>
    /\ Runs(executed[lastCall.thread], "search") = 2
    /\ Runs(executed[lastCall.thread], "input") = 1

\* the route the claim gives a decision
RouteOf(decision) ==
    CASE decision = "more_sources" -> "search"
      [] decision = "rework" -> "synthesize"
      [] OTHER -> "fact_verification"

\* the nodes the claim has a resume run from plan_review on, up to the
\* next pause
RunOf(decision) ==
    CASE decision = "more_sources" ->
            <<"plan_review", "refine", "search", "extract", "prioritize",
              "verify", "synthesize">>
      [] decision = "rework" -> <<"plan_review", "refine", "synthesize">>
      [] OTHER -> <<"plan_review", "refine">>

\* C25: a resume of a thread parked before plan_review with a decision
\* other than "approve" runs refine, which writes route_to = search for
\* "more_sources", synthesize for "rework" and fact_verification for every
\* other decision; the call runs plan_review, refine and the nodes from
\* the route up to synthesize, once each, and pauses before plan_review,
\* or before fact_verification when that is the route.  Whenever refine
\* runs, the node scheduled after it is the route of the decision just
\* submitted.
C25_RefineFixesNextPause ==
    /\ ( /\ ResumedAt("plan_review")
         /\ Submitted.decision # "approve" )
       => /\ NodesOf(lastCall.trace) = RunOf(Submitted.decision)
          /\ store[lastCall.thread].values.route_to
                = RouteOf(Submitted.decision)
          /\ store[lastCall.thread].next =
                IF RouteOf(Submitted.decision) = "fact_verification"
                THEN <<"fact_verification">> ELSE <<"plan_review">>
          /\ lastCall.answer.http = 200
    /\ lastCall.op = "resume" =>
          \A i \in DOMAIN lastCall.trace :
              lastCall.trace[i].node = "refine" =>
                  lastCall.trace[i].next = <<RouteOf(Submitted.decision)>>

\* C26: a resume of a thread parked before fact_verification runs
\* fact_verification, then final_brief, and answers "completed", whatever
\* the decision is; and every thread parked before fact_verification
\* completes in every resume, with every decision and all notes.
C26_FactVerificationCompletes ==
    /\ ResumedAt("fact_verification") =>
          /\ NodesOf(lastCall.trace) = <<"fact_verification", "final_brief">>
          /\ Answered("completed", "")
          /\ store[lastCall.thread].next = <<>>
    /\ \A t \in Threads :
          store[t].next = <<"fact_verification">> =>
              \A decision \in Decisions, notes \in Notes :
                  \A result \in ResumesOf(t, "fact_verification",
                                          decision, notes) :
                      /\ result.error = ""
                      /\ result.ck.next = <<>>

\* the nodes an edge or a path map leads to from `node`
Successors(node) ==
    IF node \in DOMAIN Edges
    THEN {Edges[node]} \ {END}
    ELSE PathMap[node]

\* the nodes reached from the nodes of `from` along edges in at most k
\* steps without entering a node of `avoiding`
RECURSIVE ReachedWithin(_, _, _)
ReachedWithin(from, avoiding, k) ==
    IF k = 0 THEN from
    ELSE ReachedWithin(
            from \cup (UNION {Successors(n) : n \in from} \ avoiding),
            avoiding, k - 1)

\* no cycle of the graph avoids plan_review
CyclesPassPlanReview ==
    \A n \in Nodes \ {"plan_review"} :
        n \notin ReachedWithin(Successors(n) \ {"plan_review"},
                               {"plan_review"}, Cardinality(Nodes))

\* C27: every cycle of the graph passes through plan_review, and a start
\* or a resume runs at most 7 nodes and never runs into the recursion
\* limit: it pauses, completes or fails in a step.
C27_CallsBounded ==
    /\ CyclesPassPlanReview
    /\ lastCall.op \in {"start", "resume"} =>
          /\ Len(lastCall.trace) <= 7
          /\ Get(lastCall.answer, "detail", "") # "GraphRecursionError"

\* a resume that ran 7 nodes and paused the thread before plan_review for
\* the third time
C27_Witness ==
    /\ lastCall.op = "resume"
    /\ Len(lastCall.trace) = 7
    /\ store[lastCall.thread].next = <<"plan_review">>
    /\ Runs(executed[lastCall.thread], "synthesize") = 3

\* C28: in every checkpoint route_to is search, synthesize or
\* fact_verification, so that route_after_refine answers a key of its path
\* map on it and no call fails in the lookup; a start leaves it
\* fact_verification, and a resume changes it only by running refine.
C28_RouteToLegal ==
    /\ \A t \in Threads :
          store[t] # NoCheckpoint =>
              /\ store[t].values.route_to
                    \in {"search", "synthesize", "fact_verification"}
              /\ ~branch_raises("refine", store[t].values)
    /\ Get(lastCall.answer, "detail", "") # "KeyError"
    /\ lastCall.op = "start" =>
          store[lastCall.thread].values.route_to = "fact_verification"
    /\ ( /\ lastCall.op = "resume"
         /\ lastCall.answer.http # 404
         /\ store[lastCall.thread].values.route_to
               # lastCall.before.values.route_to )
       => Runs(lastCall.trace, "refine") = 1

\* a thread that had gone back to search was resumed to fact_verification,
\* refine writing route_to again
C28_Witness ==
    /\ lastCall.op = "resume"
    /\ lastCall.answer.http = 200
    /\ lastCall.before.values.route_to = "search"
    /\ store[lastCall.thread].values.route_to = "fact_verification"
    /\ Runs(lastCall.trace, "refine") = 1

\* C29: the draft_plan of a thread paused before plan_review holds 4 to 7
\* sections; synthesis_node makes the 5-section fallback of fewer than 3
\* verified claims, the parsed sections when the answer holds 4 to 7 of
\* them, the first 7 when it holds more and the 6-section fallback when it
\* holds fewer; and refine never raises but on null notes, so not on an
\* empty plan.
C29_PlanSize ==
    /\ \A t \in Threads :
          store[t].next = <<"plan_review">> =>
              Len(store[t].values.draft_plan) \in 4..7
    /\ probe # NoProbe =>
          /\ Len(probe.plan) \in 4..7
          /\ probe.plan =
                IF probe.state.verified_claims < 3 THEN FallbackFewClaims
                ELSE IF probe.parsed < 4 THEN FallbackSynthesisError
                ELSE IF probe.parsed <= 7 THEN ParsedPlan(probe.parsed)
                ELSE ParsedPlan(7)
    /\ ( /\ lastCall.op = "resume"
         /\ lastCall.partial.node = "refine" )
       => lastCall.partial.received.human_feedback.notes = Null

\* synthesis_node was asked about an answer of 4 sections on a thread
\* paused before plan_review after a rework that made the 6-section
\* fallback
C29_Witness ==
    /\ probe # NoProbe
    /\ probe.parsed = 4
    /\ probe.state.verified_claims >= 3
    /\ Len(probe.plan) = 4
    /\ probe.state.refinement_notes = "add more history"
    /\ probe.state.draft_plan = FallbackSynthesisError

\* C30: a resume of a thread parked before plan_review with decision
\* "emphasize_topic" leaves draft_plan as it was and writes refined_plan:
\* with notes, the draft_plan with one section inserted in second place
\* (the first section, the new one, then the other sections in their
\* order); without notes, the draft_plan.  The resume that completes a
\* thread with a refined_plan puts that plan into the brief as
\* lecture_plan.
C30_EmphasisInserted ==
    /\ ( /\ ResumedAt("plan_review")
         /\ Submitted.decision = "emphasize_topic" )
       => LET draft   == lastCall.before.values.draft_plan
              refined == store[lastCall.thread].values.refined_plan
          IN /\ lastCall.answer.http = 200
             /\ store[lastCall.thread].values.draft_plan = draft
             /\ IF Submitted.notes \in {"", Null}
                THEN refined = draft
                ELSE /\ Len(refined) = Len(draft) + 1
                     /\ refined[1] = draft[1]
                     /\ refined[2] \notin {draft[i] : i \in DOMAIN draft}
                     /\ \A i \in 2..Len(draft) : refined[i + 1] = draft[i]
    /\ ( /\ lastCall.op = "resume"
         /\ NodesOf(lastCall.trace) = <<"fact_verification", "final_brief">>
         /\ lastCall.before.values.refined_plan # <<>> )
       => store[lastCall.thread].values.final_brief.lecture_plan
             = lastCall.before.values.refined_plan

\* C31: the node_trace in the brief of a completed thread is the names of
\* the nodes the thread ran before final_brief, in the order they ran; it
\* begins with input, search, extract, prioritize, verify, synthesize,
\* plan_review and ends with fact_verification.
C31_NodeTraceIsExecution ==
    \A t \in Threads :
        ( /\ store[t] # NoCheckpoint
          /\ store[t].next = <<>> )
        => LET node_trace == store[t].values.final_brief.node_trace
               ran == NodesOf(executed[t])
           IN /\ node_trace = SubSeq(ran, 1, Len(ran) - 1)
              /\ IsPrefix(PipelineToPlanReview \o <<"plan_review">>,
                          node_trace)
              /\ node_trace[Len(node_trace)] = "fact_verification"

\* C32: download_pdf answers 404 for an id without a checkpoint and for a
\* thread that is not completed, answers a PDF only for a completed
\* thread, and leaves the thread's checkpoint as it was.
C32_PdfOnlyWhenCompleted ==
    lastCall.op = "pdf" =>
        /\ ( \/ lastCall.before = NoCheckpoint
             \/ lastCall.before.next # <<>> )
           => lastCall.answer.http = 404
        /\ lastCall.answer.http = 200 =>
              /\ lastCall.before # NoCheckpoint
              /\ lastCall.before.next = <<>>
        /\ store[lastCall.thread] = lastCall.before

============================================================================
